---- MODULE Spec2Model ----
(***************************************************************************)
(* Model of src/oldversion.py: the MJPEG frame relay.                      *)
(*   mjpeg_frame_reader   the Demuxer, sole producer into frame_queue      *)
(*   frame_queue          queue.Queue(maxsize=FRAME_BUFFER_SIZE)           *)
(*   do_GET /stream.mjpeg the Stream Consumers, one handler thread each    *)
(*   ocr_thread_func      the Sampling Consumer                            *)
(*   web_server_thread_func, main   the web server and the controller      *)
(* Every step that touches shared state (the queue, stop_event, the        *)
(* process handles) is an action of its own; purely local computation is   *)
(* folded into the action that precedes it.                                *)
(***************************************************************************)
EXTENDS Integers, Sequences, FiniteSets, TLC

\* ------------------------------------------------------------- bounds
\* Frames the transcoder writes in one run.
MaxFrames == 2
\* HTTP clients that may open /stream.mjpeg in one run.
NumClients == 1
\* Capacity of frame_queue: FRAME_BUFFER_SIZE (20 in the source), scaled down.
FRAME_BUFFER_SIZE == 1
\* Sampling stride: OCR_FRAME_INTERVAL (30 in the source), scaled down.
OCR_FRAME_INTERVAL == 2
\* Bytes the Demuxer is fed in one run of SpecDemux, and the most per read.
MaxStreamLen == 8
MaxChunk == 2
\* Bytes the Demuxer is fed in one run of SpecChunk.
MaxCutLen == 7
\* Frames the transcoder writes in one run of SpecSample.
MaxSampleFrames == 5

\* ---------------------------------------------------------- constants
\* ffmpeg_stdout.read(4096): the most bytes one read returns.
READ_SIZE == 4096
\* The bytes of the two markers, b'\xff\xd8' and b'\xff\xd9'.
FF == 255
D8 == 216
D9 == 217

SOI == <<FF, D8>>
EOI == <<FF, D9>>

Clients == 1..NumClients
\* The Sampling Consumer takes as consumer 0, the Stream Consumers as 1, 2, ...
Sampler == 0
Consumers == Clients \cup {Sampler}
Workers == {"mjpeg_reader", "web_server", "ocr_processor"}
Procs == {"raspivid", "ffmpeg"}

\* ------------------------------------------------------ bytes helpers
Min(a, b) == IF a < b THEN a ELSE b

\* data[a:b] of Python, for 0 <= a and 0 <= b (0-based, b exclusive).
Slice(data, a, b) ==
    LET hi == Min(b, Len(data))
    IN  IF a >= hi THEN <<>> ELSE SubSeq(data, a + 1, hi)

\* bytes.find(marker): the 0-based index of the first occurrence, or -1.
Find(data, marker) ==
    LET hits == {i \in 0..(Len(data) - Len(marker)) :
                    Slice(data, i, i + Len(marker)) = marker}
    IN  IF hits = {} THEN -1 ELSE CHOOSE i \in hits : \A j \in hits : i <= j

\* The one member of a singleton: Only({F(d) : d \in {e}}) is F(e), with e
\* evaluated once.
Only(set) == CHOOSE x \in set : TRUE

\* The condition of the inner while loop (line 52) on the accumulated bytes.
HasFrame(data) ==
    \E d \in {data} :
        \E start_index \in {Find(d, SOI)}, end_index \in {Find(d, EOI)} :
            start_index # -1 /\ end_index # -1 /\ start_index < end_index

\* The slice without the +2: the end marker is cut off.
FrameOfNoEOI(data) ==
    Only({Slice(d, Find(d, SOI), Find(d, EOI)) : d \in {data}})

\* frame = jpeg_data[start_index : end_index + 2]
FrameOf(data) ==
    Only({Slice(d, Find(d, SOI), Find(d, EOI) + 2) : d \in {data}})

\* jpeg_data = jpeg_data[end_index + 2:]
RestOf(data) ==
    Only({Slice(d, Find(d, EOI) + 2, Len(d)) : d \in {data}})

\* The byte values a fed stream is made of: the marker bytes and one other.
Bytes == {0, FF, D8, D9}

\* The non-empty byte strings of at most n bytes.
Chunks(n) == UNION {[1..k -> Bytes] : k \in 1..n}

\* The i-th JPEG image the transcoder writes: SOI, one payload byte, EOI.
Jpeg(i) == SOI \o <<i>> \o EOI

\* str.strip() on a text given as a sequence of characters.
RECURSIVE LStrip(_)
LStrip(text) ==
    IF text # <<>> /\ Head(text) = " " THEN LStrip(Tail(text)) ELSE text

RECURSIVE RStrip(_)
RStrip(text) ==
    IF text # <<>> /\ text[Len(text)] = " "
    THEN RStrip(SubSeq(text, 1, Len(text) - 1))
    ELSE text

Strip(text) == RStrip(LStrip(text))

\* What pytesseract.image_to_string may return for a frame.
Texts == {<<>>, <<" ">>, <<" ", "a">>, <<"b", " ">>}

\* -------------------------------------------------------------- state
VARIABLES
    ctrl,               \* main(): where the controller is
    stop_event,         \* threading.Event: set or not
    proc,               \* raspivid_process, ffmpeg_process: none, running, exited
    stdout_closed,      \* ffmpeg_process.stdout.close() was called
    pipe,               \* bytes written by the producer and not read yet
    produced,           \* frames the transcoder has written
    dmux,               \* mjpeg_frame_reader: where the thread is
    jpeg_data,          \* mjpeg_frame_reader: the accumulation buffer
    frame_queue,        \* the Bounded Frame Buffer
    web,                \* web_server_thread_func: where the thread is
    stream,             \* do_GET /stream.mjpeg: where each handler thread is
    ocr,                \* ocr_thread_func: where the thread is
    frame_count,        \* ocr_thread_func: frames taken
    latest_ocr_result,  \* the Shared Result Register
    response,           \* do_GET /ocr.txt: the body of the latest response
    \* history, read by the properties only
    consumed,           \* every byte the Demuxer has read
    split_marker,       \* a read ended between the two bytes of a marker
    submitted,          \* every frame the Demuxer has passed to put
    taken,              \* per consumer, the frames its takes returned
    evicted,            \* frames removed by the Demuxer's get_nowait
    lost,               \* frames the Demuxer's put gave up on
    recognitions,       \* each recognition run: at which count, and its outcome
    drained,            \* frames removed by the teardown drain
    log,                \* the controller's teardown events, in order
    launch_failed       \* the producer whose launch failed, or "none"

vars == <<ctrl, stop_event, proc, stdout_closed, pipe, produced,
          dmux, jpeg_data, frame_queue, web, stream, ocr, frame_count,
          latest_ocr_result, response, consumed, split_marker, submitted, taken, evicted,
          lost, recognitions, drained, log, launch_failed>>

ctrlVars == <<ctrl, log, launch_failed>>
envVars == <<proc, pipe, produced>>
dmuxVars == <<dmux, jpeg_data, consumed, split_marker, submitted, evicted, lost>>
webVars == <<web, stream, response>>
ocrVars == <<ocr, frame_count, latest_ocr_result, recognitions>>

\* The main thread has not returned: daemon threads die when it does.
MainAlive == ctrl # <<"terminated", "main">>

\* Thread.is_alive()
IsAlive(w) ==
    CASE w = "mjpeg_reader" -> dmux \notin {"idle", "done"}
      [] w = "web_server" -> web \notin {"idle", "done"}
      [] w = "ocr_processor" -> ocr \notin {"idle", "done"}

TypeOK ==
    /\ stop_event \in BOOLEAN
    /\ stdout_closed \in BOOLEAN
    /\ proc \in [Procs -> {"none", "running", "exited"}]
    /\ produced \in Nat
    /\ dmux \in {"idle", "loop", "read", "put", "full", "put_nowait", "done"}
    /\ web \in {"idle", "starting", "serving", "done"}
    /\ stream \in [Clients -> {"none", "loop", "get", "done"}]
    /\ ocr \in {"idle", "loop", "get", "done"}
    /\ frame_count \in Nat

Init ==
    /\ ctrl = <<"start", "raspivid">>
    /\ stop_event = FALSE
    /\ proc = [p \in Procs |-> "none"]
    /\ stdout_closed = FALSE
    /\ pipe = <<>>
    /\ produced = 0
    /\ dmux = "idle"
    /\ jpeg_data = <<>>
    /\ frame_queue = <<>>
    /\ web = "idle"
    /\ stream = [c \in Clients |-> "none"]
    /\ ocr = "idle"
    /\ frame_count = 0
    /\ latest_ocr_result = <<>>
    /\ response = <<>>
    /\ recognitions = <<>>
    /\ consumed = <<>>
    /\ split_marker = FALSE
    /\ submitted = <<>>
    /\ taken = [c \in Consumers |-> <<>>]
    /\ evicted = <<>>
    /\ lost = <<>>
    /\ drained = <<>>
    /\ log = <<>>
    /\ launch_failed = "none"

\* ------------------------------------------------ external processes
\* The transcoder writes its next JPEG image to its stdout pipe, n in all.
FfmpegWriteUpTo(n) ==
    /\ MainAlive
    /\ proc["ffmpeg"] = "running"
    /\ produced < n
    /\ produced' = produced + 1
    /\ pipe' = pipe \o Jpeg(produced + 1)
    /\ UNCHANGED <<proc, stop_event, stdout_closed, frame_queue, taken, drained>>
    /\ UNCHANGED <<ctrlVars, dmuxVars, webVars, ocrVars>>

FfmpegWrite == FfmpegWriteUpTo(MaxFrames)

\* An external process exits: on its own, or in answer to terminate() or kill().
ProcExit(p) ==
    /\ MainAlive
    /\ proc[p] = "running"
    /\ proc' = [proc EXCEPT ![p] = "exited"]
    /\ UNCHANGED <<pipe, produced, stop_event, stdout_closed, frame_queue, taken, drained>>
    /\ UNCHANGED <<ctrlVars, dmuxVars, webVars, ocrVars>>

\* signal_handler: SIGINT or SIGTERM arrives while main() runs.
OperatorInterrupt ==
    /\ MainAlive
    /\ ~stop_event
    /\ stop_event' = TRUE
    /\ UNCHANGED <<stdout_closed, frame_queue, taken, drained>>
    /\ UNCHANGED <<ctrlVars, envVars, dmuxVars, webVars, ocrVars>>

\* ------------------------------------------------------- the Demuxer
\* After jpeg_data changed: the inner loop's test decides where the thread goes.
DemuxAfter(data) == IF HasFrame(data) THEN "put" ELSE "loop"

\* while not stop_event.is_set():
DemuxLoop ==
    /\ MainAlive
    /\ dmux = "loop"
    /\ dmux' = IF stop_event THEN "done" ELSE "read"
    /\ UNCHANGED <<jpeg_data, consumed, split_marker, submitted, evicted, lost>>
    /\ UNCHANGED <<stop_event, stdout_closed, frame_queue, taken, drained>>
    /\ UNCHANGED <<ctrlVars, envVars, webVars, ocrVars>>

\* The bytes before and the chunk that follows cut a marker in two.
Splits(before, chunk) ==
    /\ before # <<>>
    /\ before[Len(before)] = FF
    /\ chunk[1] \in {D8, D9}

\* A scan of the chunk just read on its own: nothing is accumulated.
ReadChunkAlone(chunk) ==
    /\ jpeg_data' = chunk
    /\ consumed' = consumed \o chunk
    /\ dmux' = DemuxAfter(chunk)
    /\ IF HasFrame(chunk)
       THEN submitted' = Append(submitted, FrameOf(chunk))
       ELSE UNCHANGED submitted

\* jpeg_data += chunk, then the two finds and the loop test.
ReadChunk(chunk) ==
    /\ jpeg_data' = jpeg_data \o chunk
    /\ consumed' = consumed \o chunk
    /\ dmux' = DemuxAfter(jpeg_data \o chunk)
    /\ IF HasFrame(jpeg_data \o chunk)
       THEN submitted' = Append(submitted, FrameOf(jpeg_data \o chunk))
       ELSE UNCHANGED submitted

\* chunk = ffmpeg_stdout.read(4096) returns what the pipe holds, 4096 bytes
\* at most.
DemuxRead ==
    /\ MainAlive
    /\ dmux = "read"
    /\ ~stdout_closed
    /\ pipe # <<>>
    /\ ReadChunk(Slice(pipe, 0, READ_SIZE))
    /\ pipe' = Slice(pipe, READ_SIZE, Len(pipe))
    /\ UNCHANGED <<evicted, lost, proc, produced, split_marker>>
    /\ UNCHANGED <<stop_event, stdout_closed, frame_queue, taken, drained>>
    /\ UNCHANGED <<ctrlVars, webVars, ocrVars>>

\* chunk = ffmpeg_stdout.read(4096) on a source that yields arbitrary bytes.
DemuxReadBytes ==
    /\ MainAlive
    /\ dmux = "read"
    /\ ~stdout_closed
    /\ proc["ffmpeg"] = "running"
    /\ \E chunk \in Chunks(Min(MaxChunk, MaxStreamLen - Len(consumed))) :
          ReadChunk(chunk)
    /\ UNCHANGED <<evicted, lost, proc, produced, pipe, split_marker>>
    /\ UNCHANGED <<stop_event, stdout_closed, frame_queue, taken, drained>>
    /\ UNCHANGED <<ctrlVars, webVars, ocrVars>>

\* The same read, on a shorter stream, noting where a read cuts a marker.
DemuxReadCut ==
    /\ MainAlive
    /\ dmux = "read"
    /\ ~stdout_closed
    /\ proc["ffmpeg"] = "running"
    /\ \E chunk \in Chunks(Min(MaxChunk, MaxCutLen - Len(consumed))) :
          /\ ReadChunk(chunk)
          /\ split_marker' = (split_marker \/ Splits(consumed, chunk))
    /\ UNCHANGED <<evicted, lost, proc, produced, pipe>>
    /\ UNCHANGED <<stop_event, stdout_closed, frame_queue, taken, drained>>
    /\ UNCHANGED <<ctrlVars, webVars, ocrVars>>

\* An end of input that submits the bytes left from the last start marker on.
DemuxReadEndFlush ==
    /\ MainAlive
    /\ dmux = "read"
    /\ \/ stdout_closed
       \/ pipe = <<>> /\ proc["ffmpeg"] # "running"
    /\ dmux' = "done"
    /\ submitted' = IF Find(jpeg_data, SOI) # -1
                    THEN Append(submitted,
                                Slice(jpeg_data, Find(jpeg_data, SOI), Len(jpeg_data)))
                    ELSE submitted
    /\ UNCHANGED <<jpeg_data, consumed, split_marker, evicted, lost>>
    /\ UNCHANGED <<stop_event, stdout_closed, frame_queue, taken, drained>>
    /\ UNCHANGED <<ctrlVars, envVars, webVars, ocrVars>>

\* read returns b'' (the writer is gone and the pipe is empty), or raises
\* because main() closed the file: either way the thread finishes.
DemuxReadEnd ==
    /\ MainAlive
    /\ dmux = "read"
    /\ \/ stdout_closed
       \/ pipe = <<>> /\ proc["ffmpeg"] # "running"
    /\ dmux' = "done"
    /\ UNCHANGED <<jpeg_data, consumed, split_marker, submitted, evicted, lost>>
    /\ UNCHANGED <<stop_event, stdout_closed, frame_queue, taken, drained>>
    /\ UNCHANGED <<ctrlVars, envVars, webVars, ocrVars>>

\* Lines 66-68 and the loop test: drop the bytes through the end marker.
DemuxAdvance ==
    /\ jpeg_data' = RestOf(jpeg_data)
    /\ dmux' = DemuxAfter(RestOf(jpeg_data))
    /\ IF HasFrame(RestOf(jpeg_data))
       THEN submitted' = Append(submitted, FrameOf(RestOf(jpeg_data)))
       ELSE UNCHANGED submitted

\* A put that never finds the queue full.
HasRoomUnbounded(q) == TRUE

\* Queue.put: there is room when the queue holds fewer than maxsize items.
HasRoom(q) == Len(q) < FRAME_BUFFER_SIZE

\* frame_queue.put(frame, timeout=0.1) returns: there was room, or room appeared.
DemuxPut ==
    /\ MainAlive
    /\ dmux = "put"
    /\ HasRoom(frame_queue)
    /\ frame_queue' = Append(frame_queue, FrameOf(jpeg_data))
    /\ DemuxAdvance
    /\ UNCHANGED <<consumed, split_marker, evicted, lost>>
    /\ UNCHANGED <<stop_event, stdout_closed, taken, drained>>
    /\ UNCHANGED <<ctrlVars, envVars, webVars, ocrVars>>

\* A put without a timeout: on a full queue it waits until a consumer takes.
DemuxPutBlock ==
    /\ dmux = "put"
    /\ FALSE
    /\ UNCHANGED vars

\* frame_queue.put(frame, timeout=0.1) raises queue.Full: still full at the timeout.
DemuxPutFull ==
    /\ MainAlive
    /\ dmux = "put"
    /\ ~HasRoom(frame_queue)
    /\ dmux' = "full"
    /\ UNCHANGED <<jpeg_data, consumed, split_marker, submitted, evicted, lost>>
    /\ UNCHANGED <<stop_event, stdout_closed, frame_queue, taken, drained>>
    /\ UNCHANGED <<ctrlVars, envVars, webVars, ocrVars>>

\* A drop-newest policy: on queue.Full the new frame is given up.
DemuxDropNewest ==
    /\ MainAlive
    /\ dmux = "full"
    /\ lost' = Append(lost, FrameOf(jpeg_data))
    /\ DemuxAdvance
    /\ UNCHANGED <<frame_queue, evicted>>
    /\ UNCHANGED <<consumed, split_marker, stop_event, stdout_closed, taken, drained>>
    /\ UNCHANGED <<ctrlVars, envVars, webVars, ocrVars>>

\* frame_queue.get_nowait() in the except branch: the oldest frame goes, or
\* queue.Empty is raised and swallowed, and the new frame is given up.
DemuxDropOldest ==
    /\ MainAlive
    /\ dmux = "full"
    /\ IF frame_queue # <<>>
       THEN /\ frame_queue' = Tail(frame_queue)
            /\ evicted' = Append(evicted, Head(frame_queue))
            /\ dmux' = "put_nowait"
            /\ UNCHANGED <<jpeg_data, submitted, lost>>
       ELSE /\ lost' = Append(lost, FrameOf(jpeg_data))
            /\ DemuxAdvance
            /\ UNCHANGED <<frame_queue, evicted>>
    /\ UNCHANGED <<consumed, split_marker, stop_event, stdout_closed, taken, drained>>
    /\ UNCHANGED <<ctrlVars, envVars, webVars, ocrVars>>

\* frame_queue.put_nowait(frame): queue.Full here is not caught by the inner
\* except and ends the thread through the outer one.
DemuxPutNowait ==
    /\ MainAlive
    /\ dmux = "put_nowait"
    /\ IF HasRoom(frame_queue)
       THEN /\ frame_queue' = Append(frame_queue, FrameOf(jpeg_data))
            /\ DemuxAdvance
            /\ UNCHANGED lost
       ELSE /\ dmux' = "done"
            /\ lost' = Append(lost, FrameOf(jpeg_data))
            /\ UNCHANGED <<frame_queue, jpeg_data, submitted>>
    /\ UNCHANGED <<consumed, split_marker, evicted, stop_event, stdout_closed, taken, drained>>
    /\ UNCHANGED <<ctrlVars, envVars, webVars, ocrVars>>

\* ----------------------------------------------------- the web server
\* ThreadingHTTPServer(...) binds, or raises and the thread finishes; then
\* serve_forever(), which returns only on httpd.shutdown(): nothing calls it.
WebBind ==
    /\ MainAlive
    /\ web = "starting"
    /\ web' \in {"serving", "done"}
    /\ UNCHANGED <<stream, response, stop_event, stdout_closed, frame_queue, taken, drained>>
    /\ UNCHANGED <<ctrlVars, envVars, dmuxVars, ocrVars>>

\* A client requests /stream.mjpeg: a handler thread sends the headers.
StreamConnect(c) ==
    /\ MainAlive
    /\ web = "serving"
    /\ stream[c] = "none"
    /\ stream' = [stream EXCEPT ![c] = "loop"]
    /\ UNCHANGED <<web, response, stop_event, stdout_closed, frame_queue, taken, drained>>
    /\ UNCHANGED <<ctrlVars, envVars, dmuxVars, ocrVars>>

\* while not stop_event.is_set(): of the handler
StreamLoop(c) ==
    /\ MainAlive
    /\ stream[c] = "loop"
    /\ stream' = [stream EXCEPT ![c] = IF stop_event THEN "done" ELSE "get"]
    /\ UNCHANGED <<web, response, stop_event, stdout_closed, frame_queue, taken, drained>>
    /\ UNCHANGED <<ctrlVars, envVars, dmuxVars, ocrVars>>

\* A get that returns the oldest entry and leaves it in the queue.
TakePeek(q) == q

\* Queue.get: the oldest entry leaves the queue.
TakeFrom(q) == Tail(q)

\* frame_queue.get(timeout=0.5) returns a frame, and the part is written to
\* the client, or the write fails and the handler leaves its loop.
StreamGet(c) ==
    /\ MainAlive
    /\ stream[c] = "get"
    /\ frame_queue # <<>>
    /\ frame_queue' = TakeFrom(frame_queue)
    /\ taken' = [taken EXCEPT ![c] = Append(@, Head(frame_queue))]
    /\ \E written \in BOOLEAN :
          stream' = [stream EXCEPT ![c] = IF written THEN "loop" ELSE "done"]
    /\ UNCHANGED <<web, response, stop_event, stdout_closed, drained>>
    /\ UNCHANGED <<ctrlVars, envVars, dmuxVars, ocrVars>>

\* frame_queue.get(timeout=0.5) raises queue.Empty; sleep, next iteration.
StreamGetEmpty(c) ==
    /\ MainAlive
    /\ stream[c] = "get"
    /\ frame_queue = <<>>
    /\ stream' = [stream EXCEPT ![c] = "loop"]
    /\ UNCHANGED <<web, response, stop_event, stdout_closed, frame_queue, taken, drained>>
    /\ UNCHANGED <<ctrlVars, envVars, dmuxVars, ocrVars>>

\* A client requests /ocr.txt: the handler writes latest_ocr_result.
OcrTextGet ==
    /\ MainAlive
    /\ web = "serving"
    /\ response' = latest_ocr_result
    /\ UNCHANGED <<web, stream, stop_event, stdout_closed, frame_queue, taken, drained>>
    /\ UNCHANGED <<ctrlVars, envVars, dmuxVars, ocrVars>>

\* ------------------------------------------------ the Sampling Consumer
\* while not stop_event.is_set(): of ocr_thread_func
OcrLoop ==
    /\ MainAlive
    /\ ocr = "loop"
    /\ ocr' = IF stop_event THEN "done" ELSE "get"
    /\ UNCHANGED <<frame_count, latest_ocr_result, recognitions>>
    /\ UNCHANGED <<stop_event, stdout_closed, frame_queue, taken, drained>>
    /\ UNCHANGED <<ctrlVars, envVars, dmuxVars, webVars>>

\* A stride test that is true on the frame after each multiple.
SampledAfter(n) == n % OCR_FRAME_INTERVAL = 1

\* if frame_count % OCR_FRAME_INTERVAL == 0
Sampled(n) == n % OCR_FRAME_INTERVAL = 0

\* A register that takes whatever the recognition returned, untrimmed.
RecognizedRaw(text, old) == text

\* The register after a recognition that returned text.
Recognized(text, old) == IF Strip(text) # <<>> THEN Strip(text) ELSE old

\* A recognition failure that ends the thread.
AfterFailureStop == "done"

\* except Exception (line 218): the failure is printed, the loop goes on.
AfterFailure == "loop"

\* frame_queue.get(timeout=0.5) returns a frame; frame_count += 1; on a
\* sampled frame the recognition runs: it raises (Image.open, cvtColor or
\* image_to_string), or it returns a text.
OcrGet ==
    /\ MainAlive
    /\ ocr = "get"
    /\ frame_queue # <<>>
    /\ frame_queue' = TakeFrom(frame_queue)
    /\ taken' = [taken EXCEPT ![Sampler] = Append(@, Head(frame_queue))]
    /\ frame_count' = frame_count + 1
    /\ IF Sampled(frame_count + 1)
       THEN \/ /\ recognitions' = Append(recognitions,
                      [at |-> frame_count + 1, ok |-> FALSE, text |-> <<>>])
               /\ ocr' = AfterFailure
               /\ UNCHANGED latest_ocr_result
            \/ \E text \in Texts :
                  /\ recognitions' = Append(recognitions,
                         [at |-> frame_count + 1, ok |-> TRUE, text |-> text])
                  /\ latest_ocr_result' = Recognized(text, latest_ocr_result)
                  /\ ocr' = "loop"
       ELSE /\ ocr' = "loop"
            /\ UNCHANGED <<latest_ocr_result, recognitions>>
    /\ UNCHANGED <<stop_event, stdout_closed, drained>>
    /\ UNCHANGED <<ctrlVars, envVars, dmuxVars, webVars>>

\* frame_queue.get(timeout=0.5) raises queue.Empty; sleep, continue.
OcrGetEmpty ==
    /\ MainAlive
    /\ ocr = "get"
    /\ frame_queue = <<>>
    /\ ocr' = "loop"
    /\ UNCHANGED <<frame_count, latest_ocr_result, recognitions>>
    /\ UNCHANGED <<stop_event, stdout_closed, frame_queue, taken, drained>>
    /\ UNCHANGED <<ctrlVars, envVars, dmuxVars, webVars>>

\* ------------------------------------------------------ the controller
\* ctrl is <<step, subject>>; the steps of main(), in program order:
\*   start (raspivid, ffmpeg, mjpeg_reader, web_server, ocr_processor),
\*   running, shutdown, join (each worker), then for ffmpeg and for raspivid
\*   poll, terminate, wait, kill, wait_kill, close, then drain, finish,
\*   terminated.

\* A finally block that goes to the external processes before the joins.
AfterShutdownNoJoin == <<"poll", "ffmpeg">>

\* The finally block begins with the first join.
AfterShutdown == <<"join", "mjpeg_reader">>

\* The joins follow one another, then come the external processes.
AfterJoin(w) ==
    CASE w = "mjpeg_reader" -> <<"join", "web_server">>
      [] w = "web_server" -> <<"join", "ocr_processor">>
      [] w = "ocr_processor" -> <<"poll", "ffmpeg">>

\* ffmpeg is dealt with first, then raspivid, then the queue is cleared.
AfterProc(p) ==
    CASE p = "ffmpeg" -> <<"poll", "raspivid">>
      [] p = "raspivid" -> <<"drain", "check">>

\* A launch failure that leaves main() without running the finally block.
AfterLaunchFailureExit == <<"finish", "main">>

\* Where main() goes when a Popen raises: through the finally block.
AfterLaunchFailure == <<"shutdown", "main">>

\* subprocess.Popen(raspivid_cmd, ...): started, or the except branch returns.
StartRaspivid ==
    /\ ctrl = <<"start", "raspivid">>
    /\ \/ /\ proc' = [proc EXCEPT !["raspivid"] = "running"]
          /\ ctrl' = <<"start", "ffmpeg">>
          /\ UNCHANGED launch_failed
       \/ /\ launch_failed' = "raspivid"
          /\ ctrl' = AfterLaunchFailure
          /\ UNCHANGED proc
    /\ UNCHANGED <<log, pipe, produced, stop_event, stdout_closed, frame_queue,
                   taken, drained>>
    /\ UNCHANGED <<dmuxVars, webVars, ocrVars>>

\* subprocess.Popen(ffmpeg_cmd, ...): started, or the exception reaches the
\* outer except, which sets stop_event.
StartFfmpeg ==
    /\ ctrl = <<"start", "ffmpeg">>
    /\ \/ /\ proc' = [proc EXCEPT !["ffmpeg"] = "running"]
          /\ ctrl' = <<"start", "mjpeg_reader">>
          /\ UNCHANGED <<launch_failed, stop_event>>
       \/ /\ launch_failed' = "ffmpeg"
          /\ stop_event' = TRUE
          /\ ctrl' = AfterLaunchFailure
          /\ UNCHANGED proc
    /\ UNCHANGED <<log, pipe, produced, stdout_closed, frame_queue, taken, drained>>
    /\ UNCHANGED <<dmuxVars, webVars, ocrVars>>

\* mjpeg_reader.start(), web_server.start(), ocr_processor.start()
StartWorker(w) ==
    /\ ctrl = <<"start", w>>
    /\ CASE w = "mjpeg_reader" ->
              /\ dmux' = "loop"
              /\ ctrl' = <<"start", "web_server">>
              /\ UNCHANGED <<web, ocr>>
         [] w = "web_server" ->
              /\ web' = "starting"
              /\ ctrl' = <<"start", "ocr_processor">>
              /\ UNCHANGED <<dmux, ocr>>
         [] w = "ocr_processor" ->
              /\ ocr' = "loop"
              /\ ctrl' = <<"running", "main">>
              /\ UNCHANGED <<dmux, web>>
    /\ UNCHANGED <<jpeg_data, consumed, split_marker, submitted, evicted, lost, stream,
                   response, frame_count, latest_ocr_result, recognitions,
                   log, launch_failed>>
    /\ UNCHANGED <<stop_event, stdout_closed, frame_queue, taken, drained>>
    /\ UNCHANGED envVars

\* while not stop_event.is_set(): time.sleep(0.5) ends.
MainLoopExit ==
    /\ ctrl = <<"running", "main">>
    /\ stop_event
    /\ ctrl' = <<"shutdown", "main">>
    /\ UNCHANGED <<log, launch_failed>>
    /\ UNCHANGED <<stop_event, stdout_closed, frame_queue, taken, drained>>
    /\ UNCHANGED <<envVars, dmuxVars, webVars, ocrVars>>

\* finally: stop_event.set()
Shutdown ==
    /\ ctrl = <<"shutdown", "main">>
    /\ stop_event' = TRUE
    /\ log' = Append(log, <<"stop", "main">>)
    /\ ctrl' = AfterShutdown
    /\ UNCHANGED <<launch_failed, stdout_closed, frame_queue, taken, drained>>
    /\ UNCHANGED <<envVars, dmuxVars, webVars, ocrVars>>

\* The worker was never started or is not alive (no join), or join returns.
JoinExited(w) ==
    /\ ctrl = <<"join", w>>
    /\ ~IsAlive(w)
    /\ log' = Append(log, <<"waited", w>>)
    /\ ctrl' = AfterJoin(w)
    /\ UNCHANGED <<launch_failed, stop_event, stdout_closed, frame_queue, taken, drained>>
    /\ UNCHANGED <<envVars, dmuxVars, webVars, ocrVars>>

\* join() without a timeout: it never returns while the worker is alive.
JoinForever(w) ==
    /\ ctrl = <<"join", w>>
    /\ FALSE
    /\ UNCHANGED vars

\* join(timeout=2) returns with the worker still alive: logged, abandoned.
JoinTimeout(w) ==
    /\ ctrl = <<"join", w>>
    /\ IsAlive(w)
    /\ log' = Append(log, <<"waited", w>>)
    /\ ctrl' = AfterJoin(w)
    /\ UNCHANGED <<launch_failed, stop_event, stdout_closed, frame_queue, taken, drained>>
    /\ UNCHANGED <<envVars, dmuxVars, webVars, ocrVars>>

\* if ffmpeg_process: ... if ffmpeg_process.poll() is None:
ProcPoll(p) ==
    /\ ctrl = <<"poll", p>>
    /\ ctrl' = CASE proc[p] = "none" -> AfterProc(p)
                 [] proc[p] = "exited" -> <<"close", p>>
                 [] proc[p] = "running" -> <<"terminate", p>>
    /\ log' = CASE proc[p] = "none" -> Append(log, <<"absent", p>>)
                [] proc[p] = "exited" -> log
                [] proc[p] = "running" -> Append(log, <<"alive", p>>)
    /\ UNCHANGED launch_failed
    /\ UNCHANGED <<stop_event, stdout_closed, frame_queue, taken, drained>>
    /\ UNCHANGED <<envVars, dmuxVars, webVars, ocrVars>>

\* ffmpeg_process.terminate()
ProcTerminate(p) ==
    /\ ctrl = <<"terminate", p>>
    /\ log' = Append(log, <<"terminate", p>>)
    /\ ctrl' = <<"wait", p>>
    /\ UNCHANGED <<launch_failed, stop_event, stdout_closed, frame_queue, taken, drained>>
    /\ UNCHANGED <<envVars, dmuxVars, webVars, ocrVars>>

\* A wait that is followed by kill() whether or not the process exited.
ProcWaitThenKill(p) ==
    /\ ctrl = <<"wait", p>>
    /\ ctrl' = <<"kill", p>>
    /\ UNCHANGED <<log, launch_failed>>
    /\ UNCHANGED <<stop_event, stdout_closed, frame_queue, taken, drained>>
    /\ UNCHANGED <<envVars, dmuxVars, webVars, ocrVars>>

\* wait(timeout=5) returns, or raises TimeoutExpired with the process running.
ProcWait(p) ==
    /\ ctrl = <<"wait", p>>
    /\ ctrl' = IF proc[p] = "exited" THEN <<"close", p>> ELSE <<"kill", p>>
    /\ log' = IF proc[p] = "exited" THEN log ELSE Append(log, <<"timed_out", p>>)
    /\ UNCHANGED launch_failed
    /\ UNCHANGED <<stop_event, stdout_closed, frame_queue, taken, drained>>
    /\ UNCHANGED <<envVars, dmuxVars, webVars, ocrVars>>

\* ffmpeg_process.kill()
ProcKill(p) ==
    /\ ctrl = <<"kill", p>>
    /\ log' = Append(log, <<"kill", p>>)
    /\ ctrl' = <<"wait_kill", p>>
    /\ UNCHANGED <<launch_failed, stop_event, stdout_closed, frame_queue, taken, drained>>
    /\ UNCHANGED <<envVars, dmuxVars, webVars, ocrVars>>

\* wait(timeout=2) returns, or raises TimeoutExpired: "could not be killed".
ProcWaitKill(p) ==
    /\ ctrl = <<"wait_kill", p>>
    /\ ctrl' = <<"close", p>>
    /\ UNCHANGED log
    /\ UNCHANGED <<launch_failed, stop_event, stdout_closed, frame_queue, taken, drained>>
    /\ UNCHANGED <<envVars, dmuxVars, webVars, ocrVars>>

\* stdout.close(), stderr.close(): the Demuxer's file is ffmpeg's stdout.
ProcClose(p) ==
    /\ ctrl = <<"close", p>>
    /\ stdout_closed' = (stdout_closed \/ p = "ffmpeg")
    /\ log' = Append(log, <<"released", p>>)
    /\ ctrl' = AfterProc(p)
    /\ UNCHANGED <<launch_failed, stop_event, frame_queue, taken, drained>>
    /\ UNCHANGED <<envVars, dmuxVars, webVars, ocrVars>>

\* while not frame_queue.empty():
DrainCheck ==
    /\ ctrl = <<"drain", "check">>
    /\ IF frame_queue = <<>>
       THEN /\ ctrl' = <<"finish", "main">>
            /\ log' = Append(log, <<"drained", "main">>)
       ELSE /\ ctrl' = <<"drain", "get">>
            /\ UNCHANGED log
    /\ UNCHANGED <<launch_failed, stop_event, stdout_closed, frame_queue, taken, drained>>
    /\ UNCHANGED <<envVars, dmuxVars, webVars, ocrVars>>

\* frame_queue.get_nowait() in the drain loop; queue.Empty breaks out.
DrainGet ==
    /\ ctrl = <<"drain", "get">>
    /\ IF frame_queue # <<>>
       THEN /\ frame_queue' = TakeFrom(frame_queue)
            /\ drained' = Append(drained, Head(frame_queue))
            /\ ctrl' = <<"drain", "check">>
            /\ UNCHANGED log
       ELSE /\ ctrl' = <<"finish", "main">>
            /\ log' = Append(log, <<"drained", "main">>)
            /\ UNCHANGED <<frame_queue, drained>>
    /\ UNCHANGED <<launch_failed, stop_event, stdout_closed, taken>>
    /\ UNCHANGED <<envVars, dmuxVars, webVars, ocrVars>>

\* The logger thread is joined for at most a second; main() returns.
Finish ==
    /\ ctrl = <<"finish", "main">>
    /\ ctrl' = <<"terminated", "main">>
    /\ UNCHANGED <<log, launch_failed>>
    /\ UNCHANGED <<stop_event, stdout_closed, frame_queue, taken, drained>>
    /\ UNCHANGED <<envVars, dmuxVars, webVars, ocrVars>>

\* ------------------------------------------------------ specifications
Controller ==
    \/ StartRaspivid
    \/ StartFfmpeg
    \/ \E w \in Workers : StartWorker(w)
    \/ MainLoopExit
    \/ Shutdown
    \/ \E w \in Workers : JoinExited(w)
    \/ \E w \in Workers : JoinTimeout(w)
    \/ \E p \in Procs : ProcPoll(p)
    \/ \E p \in Procs : ProcTerminate(p)
    \/ \E p \in Procs : ProcWait(p)
    \/ \E p \in Procs : ProcKill(p)
    \/ \E p \in Procs : ProcWaitKill(p)
    \/ \E p \in Procs : ProcClose(p)
    \/ DrainCheck
    \/ DrainGet
    \/ Finish

Demuxer ==
    \/ DemuxLoop
    \/ DemuxRead
    \/ DemuxReadEnd
    \/ DemuxPut
    \/ DemuxPutFull
    \/ DemuxDropOldest
    \/ DemuxPutNowait

StreamConsumer(c) ==
    \/ StreamLoop(c)
    \/ StreamGet(c)
    \/ StreamGetEmpty(c)

SamplingConsumer ==
    \/ OcrLoop
    \/ OcrGet
    \/ OcrGetEmpty

Environment ==
    \/ FfmpegWrite
    \/ \E p \in Procs : ProcExit(p)
    \/ OperatorInterrupt
    \/ \E c \in Clients : StreamConnect(c)
    \/ OcrTextGet

Next ==
    \/ Controller
    \/ Demuxer
    \/ WebBind
    \/ \E c \in Clients : StreamConsumer(c)
    \/ SamplingConsumer
    \/ Environment

Spec == Init /\ [][Next]_vars

\* The threads are scheduled fairly: a step of main() or of a worker that
\* stays possible is taken. Nothing is assumed of the operator, the clients
\* or the external processes.
Fairness ==
    /\ WF_vars(Controller)
    /\ WF_vars(Demuxer)
    /\ WF_vars(WebBind)
    /\ WF_vars(SamplingConsumer)
    /\ \A c \in Clients : WF_vars(StreamConsumer(c))

FairSpec == Spec /\ Fairness

\* The same, assuming only that main() itself keeps running.
MainFairSpec == Spec /\ WF_vars(Controller)

\* The Demuxer alone, from the state in which its thread has just been
\* started, reading a source that yields arbitrary bytes and then closes.
InitDemux ==
    /\ ctrl = <<"start", "web_server">>
    /\ stop_event = FALSE
    /\ proc = [p \in Procs |-> "running"]
    /\ stdout_closed = FALSE
    /\ pipe = <<>>
    /\ produced = 0
    /\ dmux = "loop"
    /\ jpeg_data = <<>>
    /\ frame_queue = <<>>
    /\ web = "idle"
    /\ stream = [c \in Clients |-> "none"]
    /\ ocr = "idle"
    /\ frame_count = 0
    /\ latest_ocr_result = <<>>
    /\ response = <<>>
    /\ recognitions = <<>>
    /\ consumed = <<>>
    /\ split_marker = FALSE
    /\ submitted = <<>>
    /\ taken = [c \in Consumers |-> <<>>]
    /\ evicted = <<>>
    /\ lost = <<>>
    /\ drained = <<>>
    /\ log = <<>>
    /\ launch_failed = "none"

NextDemux ==
    \/ DemuxLoop
    \/ DemuxReadBytes
    \/ DemuxReadEnd
    \/ DemuxPut
    \/ DemuxPutFull
    \/ DemuxDropOldest
    \/ DemuxPutNowait
    \/ ProcExit("ffmpeg")

SpecDemux == InitDemux /\ [][NextDemux]_vars

\* The Demuxer alone on a stream too short to fill the queue: the put always
\* finds room.
NextChunk ==
    \/ DemuxLoop
    \/ DemuxReadCut
    \/ DemuxReadEnd
    \/ DemuxPut
    \/ ProcExit("ffmpeg")

SpecChunk == InitDemux /\ [][NextChunk]_vars

\* The relay in Running: both producers and the three workers started, the
\* server bound, no stop requested; the transcoder writes a longer stream.
InitSample ==
    /\ ctrl = <<"running", "main">>
    /\ stop_event = FALSE
    /\ proc = [p \in Procs |-> "running"]
    /\ stdout_closed = FALSE
    /\ pipe = <<>>
    /\ produced = 0
    /\ dmux = "loop"
    /\ jpeg_data = <<>>
    /\ frame_queue = <<>>
    /\ web = "serving"
    /\ stream = [c \in Clients |-> "none"]
    /\ ocr = "loop"
    /\ frame_count = 0
    /\ latest_ocr_result = <<>>
    /\ response = <<>>
    /\ recognitions = <<>>
    /\ consumed = <<>>
    /\ split_marker = FALSE
    /\ submitted = <<>>
    /\ taken = [c \in Consumers |-> <<>>]
    /\ evicted = <<>>
    /\ lost = <<>>
    /\ drained = <<>>
    /\ log = <<>>
    /\ launch_failed = "none"

NextSample ==
    \/ FfmpegWriteUpTo(MaxSampleFrames)
    \/ DemuxLoop
    \/ DemuxRead
    \/ DemuxPut
    \/ DemuxPutFull
    \/ DemuxDropOldest
    \/ DemuxPutNowait
    \/ \E c \in Clients : StreamConnect(c)
    \/ \E c \in Clients : StreamConsumer(c)
    \/ SamplingConsumer
    \/ OcrTextGet

SpecSample == InitSample /\ [][NextSample]_vars

\* The same with the Demuxer thread scheduled fairly; nothing is assumed of
\* the consumers, which may never take a frame.
DemuxFairSample == SpecSample /\ WF_vars(Demuxer)

\* ---------------------------------------------------------- properties
Range(seq) == {seq[i] : i \in 1..Len(seq)}

\* How often x occurs in seq.
Occurrences(seq, x) == Cardinality({i \in 1..Len(seq) : seq[i] = x})

\* The last n entries of seq, all of it when it has fewer.
LastN(seq, n) ==
    IF Len(seq) <= n THEN seq ELSE SubSeq(seq, Len(seq) - n + 1, Len(seq))

\* The Demuxer is inside a put: the last submitted frame is still in flight.
InPut == dmux \in {"put", "full", "put_nowait"}

\* The frames whose put has returned, in order.
PutDone ==
    IF InPut THEN SubSeq(submitted, 1, Len(submitted) - 1) ELSE submitted

\* No take yet: by a Stream Consumer, by the Sampling Consumer, by the drain.
NoTake == (\A c \in Consumers : taken[c] = <<>>) /\ drained = <<>>

\* C1: in every reachable state the Bounded Frame Buffer holds between 0 and
\* FRAME_BUFFER_SIZE frames, whatever the Demuxer, the consumers and the
\* teardown drain do.
BufferBounded == Len(frame_queue) \in 0..FRAME_BUFFER_SIZE

\* C1 witness: the buffer is full again after an overflow evicted a frame.
BufferFullAfterEviction ==
    Len(frame_queue) = FRAME_BUFFER_SIZE /\ evicted # <<>>

PutAlwaysAppends == lost = <<>>

\* Every place a submitted frame can be: the buffer, a consumer, the
\* Demuxer's evictions, the drain, or given up by put.
Holders ==
    <<frame_queue, evicted, drained, lost>> \o [i \in 1..(NumClients + 1) |-> taken[i - 1]]

\* In how many places (counting repeats) frame f is.
Copies(f) ==
    LET n[i \in 0..Len(Holders)] ==
            IF i = 0 THEN 0 ELSE n[i - 1] + Occurrences(Holders[i], f)
    IN  n[Len(Holders)]

\* C4: a frame is never in two places: each frame put is in the buffer or was
\* handed to exactly one taker (a consumer, the eviction, the drain), so no
\* frame is returned by two takes and the frames of the buffer are shared out
\* among the consumers that take them, each exactly once.
NoDuplicateDelivery ==
    /\ \A f \in Range(PutDone) : Copies(f) = 1
    /\ \A f \in Range(submitted) \ Range(PutDone) :
          Copies(f) = 0
    /\ \A c \in Consumers : Range(taken[c]) \subseteq Range(submitted)

\* C4 witness: the Sampling Consumer and a Stream Consumer were both inside
\* get; between them they took every frame that was put, the buffer is empty.
TwoConsumersSharedAll ==
    /\ Len(PutDone) = MaxFrames
    /\ frame_queue = <<>>
    /\ evicted = <<>> /\ lost = <<>> /\ drained = <<>>
    /\ taken[Sampler] # <<>>
    /\ \E c \in Clients : taken[c] # <<>>

\* The 1-based positions at which the two bytes of marker begin in bytes.
MarkersAt(bytes, marker) ==
    {i \in 1..(Len(bytes) - 1) : bytes[i] = marker[1] /\ bytes[i + 1] = marker[2]}

\* The members of a set of numbers, ascending.
RECURSIVE Ascending(_)
Ascending(set) ==
    IF set = {} THEN <<>>
    ELSE LET least == CHOOSE x \in set : \A y \in set : x <= y
         IN  <<least>> \o Ascending(set \ {least})

\* bytes holds well-formed, non-overlapping marker pairs and nothing else
\* that is a marker: start and end markers alternate, a start marker first.
WellFormedPairs(bytes) ==
    LET starts == Ascending(MarkersAt(bytes, SOI))
        ends == Ascending(MarkersAt(bytes, EOI))
    IN  /\ Len(starts) = Len(ends)
        /\ \A k \in 1..Len(starts) : starts[k] < ends[k]
        /\ \A k \in 1..(Len(starts) - 1) : ends[k] < starts[k + 1]

\* The byte ranges of the pairs of a well-formed bytes, in bytes order.
PairRanges(bytes) ==
    LET starts == Ascending(MarkersAt(bytes, SOI))
        ends == Ascending(MarkersAt(bytes, EOI))
    IN  [k \in 1..Len(starts) |-> SubSeq(bytes, starts[k], ends[k] + 1)]

\* The Demuxer has scanned everything it read and is not inside a put.
Scanned == dmux \in {"loop", "read", "done"}

\* C5: when the bytes read so far hold exactly M well-formed marker pairs and
\* the Demuxer has scanned them, it has submitted exactly M frames, in stream
\* order, the i-th being the bytes from the i-th start marker through the
\* i-th end marker.
EmitsEachPair ==
    (Scanned /\ WellFormedPairs(consumed)) => submitted = PairRanges(consumed)

\* C5 witness: the source closed after a stream of two pairs; both frames were
\* submitted.
TwoPairsEmitted ==
    /\ dmux = "done"
    /\ WellFormedPairs(consumed)
    /\ Cardinality(MarkersAt(consumed, SOI)) = 2
    /\ Len(submitted) = 2

\* C6: once the Stop Signal is set, no live worker is inside a call that
\* cannot return: each has a step of its own to take (a loop test, a get that
\* returns or times out), or, for the Demuxer's read, a running producer whose
\* next write or exit ends the read. A worker without one never observes the
\* signal.
WorkersCanExitAfterStop ==
    (stop_event /\ MainAlive) =>
        /\ IsAlive("mjpeg_reader") => (ENABLED Demuxer \/ proc["ffmpeg"] = "running")
        /\ IsAlive("web_server") => ENABLED WebBind
        /\ IsAlive("ocr_processor") => ENABLED SamplingConsumer
        /\ \A c \in Clients :
              stream[c] \in {"loop", "get"} => ENABLED StreamConsumer(c)

\* The controller is in Running and the transcoder is in the given state.
RunningWith(state) == ctrl = <<"running", "main">> /\ proc["ffmpeg"] = state

\* C7: when the transcoder exits while the controller is in Running, the
\* Stop Signal is eventually set.
ProducerExitStopsRun ==
    [](RunningWith("running") => [](RunningWith("exited") => <>stop_event))

\* The events of the log that are termination requests to process p.
Requested(p) == {<<"terminate", p>>, <<"kill", p>>} \cap Range(log)

\* C8: after a failed launch the controller never enters Running and starts
\* no worker; it runs the teardown with the Stop Signal set, and when it is
\* Terminated every process it had started has exited or was sent both the
\* graceful and the forceful termination request.
LaunchFailureAborts ==
    launch_failed # "none" =>
        /\ ctrl[1] \notin {"start", "running"}
        /\ \A w \in Workers : ~IsAlive(w)
        /\ ctrl[1] # "shutdown" => stop_event
        /\ ctrl = <<"terminated", "main">> =>
              /\ <<"stop", "main">> \in Range(log)
              /\ \A p \in Procs :
                    proc[p] = "running" => Cardinality(Requested(p)) = 2

\* C8 witness: ffmpeg failed to launch after raspivid had started; teardown
\* terminated raspivid, and the controller is Terminated.
FfmpegLaunchFailedAndCleaned ==
    /\ launch_failed = "ffmpeg"
    /\ ctrl = <<"terminated", "main">>
    /\ <<"terminate", "raspivid">> \in Range(log)
    /\ proc["raspivid"] = "exited"

\* The stage a teardown event belongs to.
StageOf(event) ==
    CASE event[1] = "stop" -> 1
      [] event[1] = "waited" -> 2
      [] event[1] \in {"absent", "alive", "terminate", "timed_out", "kill",
                       "released"} -> 3
      [] event[1] = "drained" -> 4

\* The controller is done with process p: it was never started, or its
\* handles were closed after the termination sequence.
DealtWith(p, events) == <<"absent", p>> \in events \/ <<"released", p>> \in events

\* C9: the teardown events happen stage by stage: the Stop Signal is set,
\* then every worker is waited on, then the external processes are dealt
\* with, then the buffer is drained, then the controller is Terminated; a
\* stage begins only when the one before is complete.
StagedTeardown ==
    /\ \A i \in 1..Len(log) :
          LET before == {log[j] : j \in 1..(i - 1)}
          IN  /\ \A j \in 1..(i - 1) : StageOf(log[j]) <= StageOf(log[i])
              /\ StageOf(log[i]) >= 2 => <<"stop", "main">> \in before
              /\ StageOf(log[i]) >= 3 =>
                    \A w \in Workers : <<"waited", w>> \in before
              /\ StageOf(log[i]) >= 4 =>
                    \A p \in Procs : DealtWith(p, before)
    /\ log # <<>> => stop_event
    /\ drained # <<>> => \A p \in Procs : DealtWith(p, Range(log))
    /\ ctrl[1] \in {"finish", "terminated"} => <<"drained", "main">> \in Range(log)

\* C9 witness: a teardown that went through every stage: a worker was waited
\* on, a process was sent both requests, frames were drained, Terminated.
FullTeardown ==
    /\ ctrl = <<"terminated", "main">>
    /\ <<"kill", "ffmpeg">> \in Range(log)
    /\ <<"terminate", "raspivid">> \in Range(log)
    /\ drained # <<>>

Sending(p) == ctrl \in {<<"terminate", p>>, <<"kill", p>>}

\* C11 as stated: a request is only ever sent to a process that has not
\* exited, the graceful request comes before the forceful one, and the
\* forceful one is sent exactly when the process outlived the bounded wait.
RequestsOnlyToRunning ==
    \A p \in Procs :
        /\ Sending(p) => proc[p] = "running"
        /\ ctrl = <<"kill", p>> => <<"terminate", p>> \in Range(log)
        /\ (ctrl = <<"close", p>> /\ proc[p] = "running") =>
              <<"kill", p>> \in Range(log)

\* The position of event in the log, 0 when it is not there.
PositionOf(event) ==
    IF event \in Range(log) THEN CHOOSE i \in 1..Len(log) : log[i] = event ELSE 0

\* event is in the log and the entry just before it is prior.
RightAfter(event, prior) ==
    PositionOf(event) > 1 /\ log[PositionOf(event) - 1] = prior

\* C11, amended: every request follows a check that found the process
\* running: terminate() comes right after a poll() that returned None, kill()
\* right after the wait that followed terminate() timed out, and only then;
\* a process found exited by poll() is sent nothing, and one that outlives
\* the wait is sent the forceful request before its handles are closed.
RequestsFollowChecks ==
    \A p \in Procs :
        /\ <<"terminate", p>> \in Range(log) =>
              RightAfter(<<"terminate", p>>, <<"alive", p>>)
        /\ <<"timed_out", p>> \in Range(log) =>
              RightAfter(<<"timed_out", p>>, <<"terminate", p>>)
        /\ <<"kill", p>> \in Range(log) =>
              RightAfter(<<"kill", p>>, <<"timed_out", p>>)
        /\ \A kind \in {"alive", "terminate", "timed_out", "kill"} :
              Occurrences(log, <<kind, p>>) <= 1
        /\ ctrl = <<"terminate", p>> => log[Len(log)] = <<"alive", p>>
        /\ ctrl = <<"kill", p>> => log[Len(log)] = <<"timed_out", p>>
        /\ (ctrl = <<"close", p>> /\ proc[p] = "running") =>
              <<"kill", p>> \in Range(log)
        /\ (<<"released", p>> \in Range(log) /\ <<"alive", p>> \notin Range(log)) =>
              proc[p] = "exited"

\* C11 witness: in one teardown ffmpeg ignored the graceful request and was
\* sent the forceful one, and raspivid exited on the graceful request alone.
GracefulThenForceful ==
    /\ ctrl = <<"drain", "check">>
    /\ <<"kill", "ffmpeg">> \in Range(log)
    /\ <<"terminate", "raspivid">> \in Range(log)
    /\ <<"kill", "raspivid">> \notin Range(log)

\* C12: the Sampling Consumer counts the frames it took itself, and has run
\* the recognition exactly once per full stride of OCR_FRAME_INTERVAL of
\* them: the i-th run was on its (i * OCR_FRAME_INTERVAL)-th frame, whatever
\* the other consumers took and however the earlier runs ended.
SamplesEveryKth ==
    /\ frame_count = Len(taken[Sampler])
    /\ Len(recognitions) = frame_count \div OCR_FRAME_INTERVAL
    /\ \A i \in 1..Len(recognitions) : recognitions[i].at = i * OCR_FRAME_INTERVAL

\* C12 witness: two recognitions were run, the first of which failed, while
\* a Stream Consumer took a frame of the same stream.
SampledTwiceAmongCompetitors ==
    /\ Len(recognitions) = 2
    /\ ~recognitions[1].ok
    /\ \E c \in Clients : taken[c] # <<>>

\* The trimmed text of the most recent recognition among runs that returned
\* a text that is non-empty after trimming; empty when there was none.
RECURSIVE LastText(_)
LastText(runs) ==
    IF runs = <<>> THEN <<>>
    ELSE LET last == runs[Len(runs)]
         IN  IF last.ok /\ Strip(last.text) # <<>>
             THEN Strip(last.text)
             ELSE LastText(SubSeq(runs, 1, Len(runs) - 1))

\* C13: the register starts empty; at every step it holds the trimmed text of
\* the most recent recognition that returned non-empty text; it changes only
\* in a step that appends such a recognition; once non-empty it stays
\* non-empty; and a GET /ocr.txt answers with exactly that text.
RegisterHoldsLastText ==
    /\ latest_ocr_result = <<>>
    /\ [][/\ latest_ocr_result' = LastText(recognitions')
          /\ latest_ocr_result # <<>> => latest_ocr_result' # <<>>
          /\ latest_ocr_result' # latest_ocr_result =>
                /\ Len(recognitions') = Len(recognitions) + 1
                /\ recognitions'[Len(recognitions')].ok
                /\ latest_ocr_result' = Strip(recognitions'[Len(recognitions')].text)
                /\ latest_ocr_result' # <<>>
          /\ OcrTextGet => response' = LastText(recognitions)]_vars

\* C13 witness: a recognition returned " a", a later one returned only
\* blanks, and a GET /ocr.txt after both answered "a".
ReadAfterBlankRecognition ==
    /\ Len(recognitions) = 2
    /\ recognitions[1].ok /\ recognitions[1].text = <<" ", "a">>
    /\ recognitions[2].ok /\ Strip(recognitions[2].text) = <<>>
    /\ latest_ocr_result = <<"a">>
    /\ response = <<"a">>

\* C14: the Demuxer is never held up by the buffer: whenever it is inside a
\* put it gets back to reading its source, every frame in flight having been
\* put, whether or not any consumer takes; and no put ends the thread.
PutNeverBlocks == (InPut ~> (dmux = "read")) /\ [](dmux # "done")

\* C14 witness: nothing was ever taken, the buffer is full, two puts in a
\* row had to evict, and the Demuxer is reading again.
ReadingAfterBackpressure ==
    /\ NoTake
    /\ Len(frame_queue) = FRAME_BUFFER_SIZE
    /\ Len(evicted) >= 2
    /\ dmux = "read"

\* t is s with entries left out: the entries of t occur in s in the same
\* order, each at a position of its own.
RECURSIVE IsSubseq(_, _)
IsSubseq(t, s) ==
    IF t = <<>> THEN TRUE
    ELSE IF s = <<>> THEN FALSE
    ELSE IF Head(t) = Head(s) THEN IsSubseq(Tail(t), Tail(s))
    ELSE IsSubseq(t, Tail(s))

TruncatedTail(bytes) ==
    LET starts == Ascending(MarkersAt(bytes, SOI))
        ends == Ascending(MarkersAt(bytes, EOI))
    IN  /\ Len(starts) = Len(ends) + 1
        /\ \A k \in 1..Len(ends) : starts[k] < ends[k] /\ ends[k] < starts[k + 1]

\* The byte ranges of the complete pairs of such bytes, in order.
CompletePairs(bytes) ==
    LET starts == Ascending(MarkersAt(bytes, SOI))
        ends == Ascending(MarkersAt(bytes, EOI))
    IN  [k \in 1..Len(ends) |-> SubSeq(bytes, starts[k], ends[k] + 1)]

\* C16: when the bytes read end in a start marker that no end marker
\* follows, the Demuxer has submitted the complete pairs before it and
\* nothing for the fragment, on no error path; and once the source has
\* closed, the pending read ends the thread.
TruncatedTailDropped ==
    /\ (Scanned /\ TruncatedTail(consumed)) =>
          submitted = CompletePairs(consumed) /\ lost = <<>>
    /\ (dmux = "read" /\ proc["ffmpeg"] = "exited" /\ pipe = <<>>) =>
          ENABLED DemuxReadEnd

\* C16 witness: the source closed after one complete frame and a fragment;
\* the thread has finished with that one frame submitted.
FinishedAfterFragment ==
    /\ dmux = "done"
    /\ proc["ffmpeg"] = "exited"
    /\ TruncatedTail(consumed)
    /\ Len(submitted) = 1
    /\ jpeg_data # <<>>

\* The step runs a recognition that fails.
RecognitionFails ==
    /\ Len(recognitions') = Len(recognitions) + 1
    /\ ~recognitions'[Len(recognitions')].ok

\* C17: a step in which the recognition fails leaves the register as it was
\* and the count at the frame just taken, and puts the Sampling Consumer
\* back at its loop test; the thread never finishes on its own, and the
\* recognition after a failed one runs OCR_FRAME_INTERVAL frames later.
FailureKeepsSampling ==
    /\ [][RecognitionFails =>
            /\ latest_ocr_result' = latest_ocr_result
            /\ frame_count' = frame_count + 1
            /\ frame_count' = recognitions'[Len(recognitions')].at
            /\ ocr' = "loop"]_vars
    /\ [](ocr # "done")
    /\ [](\A i \in 1..(Len(recognitions) - 1) :
             ~recognitions[i].ok =>
                 recognitions[i + 1].at = recognitions[i].at + OCR_FRAME_INTERVAL)

\* C17 witness: the first recognition failed, and the one on the next sampled
\* frame returned a text that is now in the register.
RecognizedAfterFailure ==
    /\ Len(recognitions) = 2
    /\ ~recognitions[1].ok
    /\ recognitions[2].ok
    /\ latest_ocr_result = Strip(recognitions[2].text)
    /\ latest_ocr_result # <<>>

\* C18: once the controller has left the drain loop the buffer is empty, and
\* it is empty when the controller is Terminated.
DrainLeavesEmpty ==
    ctrl[1] \in {"finish", "terminated"} => frame_queue = <<>>

\* The frames the Demuxer's scan takes out of bytes held as one piece: the
\* inner loop of lines 52-68 run on the whole of it.
RECURSIVE FramesOf(_)
FramesOf(bytes) ==
    IF HasFrame(bytes)
    THEN <<FrameOf(bytes)>> \o FramesOf(RestOf(bytes))
    ELSE <<>>

\* C19: however the reads cut the byte stream, once the Demuxer has scanned
\* what it read it has submitted the frames that a single read of the same
\* bytes gives, in the same order: any two ways of cutting one stream submit
\* the same frames.
ChunkingIndependent ==
    Scanned => submitted = FramesOf(consumed)

\* C19 witness: a frame was submitted from a stream in which a read ended
\* between the two bytes of a marker, and bytes that follow it are held.
FrameAcrossSplit ==
    /\ split_marker
    /\ Scanned
    /\ Len(submitted) = 1
    /\ jpeg_data # <<>>

\* The least member of a non-empty set of numbers.
Least(set) == CHOOSE x \in set : \A y \in set : x <= y

\* bytes from its first start marker on.
FromFirstStart(bytes) ==
    SubSeq(bytes, Least(MarkersAt(bytes, SOI)), Len(bytes))

\* bytes begins mid-frame: an end marker comes before the first start
\* marker, and from that start marker on the bytes are well-formed pairs.
StrayEndFirst(bytes) ==
    /\ MarkersAt(bytes, SOI) # {}
    /\ MarkersAt(bytes, EOI) # {}
    /\ Least(MarkersAt(bytes, EOI)) < Least(MarkersAt(bytes, SOI))
    /\ WellFormedPairs(FromFirstStart(bytes))

\* C20: when the bytes read begin with a stray end marker and go on with
\* well-formed pairs, the Demuxer has skipped the stray marker and submitted
\* every pair that follows, and no put path ended the thread.
StrayEndSkipped ==
    (Scanned /\ StrayEndFirst(consumed)) =>
        submitted = PairRanges(FromFirstStart(consumed)) /\ lost = <<>>

====
